---- MODULE Spec2Model ----
(***************************************************************************)
(* Client-side interaction protocol of the cirec_rag front end.            *)
(*                                                                         *)
(*   - single-shot query page   src/frontend/static/js/app.js              *)
(*   - chat query page          src/unnamed/part_000                       *)
(*   - admin page               src/frontend/static/js/admin.js            *)
(*                                                                         *)
(* Each page is a single-threaded event loop: an action below is one task  *)
(* of that loop, i.e. one event handler run up to its next await, or the   *)
(* continuation of an async function after the awaited request settled.    *)
(* Exactly one page is open in a behaviour (variable page).                *)
(*                                                                         *)
(* Text (questions, answers) is a sequence of one-character strings.       *)
(***************************************************************************)
EXTENDS Integers, Sequences, FiniteSets, TLC

VARIABLES
    page,               \* which of the three pages this browser tab holds
    uncaughtError,      \* an exception left an event handler / async function
    now,                \* Date.now() / new Date()
    \* ---- single-shot page (app.js)
    queryInput,         \* queryInput.value
    submitBtn,          \* [disabled, label]: submitBtn.disabled and which label span shows
    emptyStateShown,    \* emptyState.style.display # 'none'
    resultsShown,       \* resultsSection.style.display = 'block'
    answerContent,      \* answerContent.textContent
    processingTime,     \* processingTime.textContent
    sourcesContent,     \* children of sourcesContent
    alertMsg,           \* text of the last alert() dialog
    appReqs,            \* POST /api/query requests in flight, in issue order
    \* ---- chat page (part_000)
    chatInput,          \* chatInput.value
    sendBtnDisabled,    \* sendBtn.disabled
    chatInputDisabled,  \* chatInput.disabled
    chatHistory,        \* let chatHistory
    chatContainer,      \* children of chatContainer, in document order
    chatReqs,           \* POST /api/query requests in flight, with the closure of sendMessage
    console,            \* last console.log / console.error line of the chat page
    \* ---- admin page (admin.js)
    docState,           \* "loading": admin.js has not run yet; "live"; "gone": document unloaded
    storedToken,        \* localStorage item 'token'
    authHeaders,        \* const authHeaders
    href,               \* the path window.location.href was last set to
    documentsTable,     \* what documentsTable shows
    listReqs,           \* GET /api/admin/documents requests in flight, in issue order
    lastListPending,    \* history: the list request issued last is still in flight
    batches,            \* the calls of uploadFiles so far, each with its position and its events
    uploadProgressShown,\* uploadProgress.style.display = 'block'
    progressFill,       \* progressFill.style.width as <<numerator, denominator>> of the fraction
    uploadStatus,       \* uploadStatus.textContent
    statusMessage,      \* text and class of the status banner
    statusShown,        \* statusDiv.style.display = 'block'
    fileToDelete,       \* let fileToDelete
    deleteFilename,     \* deleteFilename.textContent
    modalShown,         \* deleteModal.style.display = 'flex'
    modalTrail,         \* history: the last show-modal or cancel action of the user
    deleteReqs,         \* DELETE requests in flight, in issue order
    rebuildReqs,        \* POST /api/admin/rebuild-index requests in flight
    healthReqs,         \* GET /health requests in flight
    statusDialog        \* text of the last alert() dialog of the admin page, <<>> before the first

queryVars == <<queryInput, submitBtn, emptyStateShown, resultsShown, answerContent,
               processingTime, sourcesContent, alertMsg, appReqs>>
chatVars == <<chatInput, sendBtnDisabled, chatInputDisabled, chatHistory,
              chatContainer, chatReqs, console>>
sessionVars == <<docState, storedToken, authHeaders, href>>
listVars == <<documentsTable, listReqs, lastListPending>>
uploadVars == <<batches, uploadProgressShown, progressFill, uploadStatus>>
bannerVars == <<statusMessage, statusShown>>
deleteVars == <<fileToDelete, deleteFilename, modalShown, modalTrail, deleteReqs>>
maintVars == <<rebuildReqs, healthReqs, statusDialog>>
adminVars == <<sessionVars, listVars, uploadVars, bannerVars, deleteVars, maintVars>>

----------------------------------------------------------------------------
(* Bounds of the model *)

\* most POST /query requests one page holds in flight
MaxQueryReqs == 2
\* most children of chatContainer
MaxBubbles == 4
\* last value of the clock
MaxClock == 1
\* most document-list requests in flight
MaxListReqs == 2
\* most calls of uploadFiles in a behaviour
MaxBatches == 2
\* most DELETE requests in flight
MaxDeleteReqs == 2
\* most rebuild-index requests in flight
MaxRebuildReqs == 2
\* most health requests in flight
MaxHealthReqs == 2
\* longest answer drawn from the alphabet
MaxAnswerLen == 3

(* Constants of the program *)

\* top_k of every query
TopK == 10
\* sources.slice(0, 5)
MaxSourceTags == 5

----------------------------------------------------------------------------
(* Text *)

\* the texts the user types into an input: empty, blank, padded and plain
Inputs == {<<>>, <<" ">>, <<" ", " ">>, <<"a">>, <<" ", "a", " ">>, <<"a", " ", "a">>}

\* data-query of an example button
ExampleQueries == {<<"a", "a">>}

IsSpace(c) == c \in {" ", "\n"}

RECURSIVE TrimStart(_)
TrimStart(s) ==
    IF s = <<>> THEN s
    ELSE IF IsSpace(Head(s)) THEN TrimStart(Tail(s)) ELSE s

RECURSIVE TrimEnd(_)
TrimEnd(s) ==
    IF s = <<>> THEN s
    ELSE IF IsSpace(s[Len(s)]) THEN TrimEnd(SubSeq(s, 1, Len(s) - 1)) ELSE s

\* mutant of Trim: the question is taken untrimmed
NoTrim(s) == s

\* String.prototype.trim
Trim(s) == TrimEnd(TrimStart(s))

\* mutant of EscapeChar: a replacement table that leaves the ampersand out
EscapeCharNoAmp(c) ==
    CASE c = "<" -> <<"&", "l", "t", ";">>
      [] c = ">" -> <<"&", "g", "t", ";">>
      [] OTHER   -> <<c>>

\* the characters textContent -> innerHTML serialisation replaces
EscapeChar(c) ==
    CASE c = "&" -> <<"&", "a", "m", "p", ";">>
      [] c = "<" -> <<"&", "l", "t", ";">>
      [] c = ">" -> <<"&", "g", "t", ";">>
      [] OTHER   -> <<c>>

RECURSIVE EscapeText(_)
EscapeText(s) ==
    IF s = <<>> THEN <<>> ELSE EscapeChar(Head(s)) \o EscapeText(Tail(s))

\* escapeHtml(text): '' for a falsy text, else the serialised text node
escapeHtml(text) == IF text = <<>> THEN <<>> ELSE EscapeText(text)

StartsWith(s, prefix) == Len(s) >= Len(prefix) /\ SubSeq(s, 1, Len(prefix)) = prefix

Skip(s, n) == SubSeq(s, n + 1, Len(s))

\* the text the HTML parser makes of the character data of an innerHTML assignment:
\* the character references escapeHtml can produce are decoded
RECURSIVE Unescape(_)
Unescape(s) ==
    IF s = <<>> THEN <<>>
    ELSE IF StartsWith(s, <<"&", "a", "m", "p", ";">>) THEN <<"&">> \o Unescape(Skip(s, 5))
    ELSE IF StartsWith(s, <<"&", "l", "t", ";">>) THEN <<"<">> \o Unescape(Skip(s, 4))
    ELSE IF StartsWith(s, <<"&", "g", "t", ";">>) THEN <<">">> \o Unescape(Skip(s, 4))
    ELSE <<Head(s)>> \o Unescape(Tail(s))

IsDigit(c) == c \in {"0", "1", "2", "3", "4", "5", "6", "7", "8", "9"}

\* the position of the first "\n\n" of s at or after i, 0 when there is none
RECURSIVE FindBreak(_, _)
FindBreak(s, i) ==
    IF i + 1 > Len(s) THEN 0
    ELSE IF s[i] = "\n" /\ s[i + 1] = "\n" THEN i
    ELSE FindBreak(s, i + 1)

\* text.split('\n\n')
RECURSIVE SplitParagraphs(_)
SplitParagraphs(s) ==
    LET b == FindBreak(s, 1) IN
    IF b = 0 THEN <<s>>
    ELSE <<SubSeq(s, 1, b - 1)>> \o SplitParagraphs(SubSeq(s, b + 2, Len(s)))

\* p.match(/^\d+\./): one or more digits, then a dot, at the start of p
RECURSIVE DigitsThenDot(_, _)
DigitsThenDot(p, i) ==
    IF i > Len(p) THEN FALSE
    ELSE IF IsDigit(p[i]) THEN DigitsThenDot(p, i + 1)
    ELSE p[i] = "." /\ i > 1

IsListItem(p) == DigitsThenDot(p, 1)

\* the callback of paragraphs.map in formatAnswer: the element one paragraph becomes
FormatParagraph(raw) ==
    LET p == Trim(raw) IN
    IF p = <<>> THEN <<>>
    ELSE IF IsListItem(p) THEN <<[tag |-> "div.list-item", html |-> escapeHtml(p)]>>
    ELSE <<[tag |-> "p", html |-> escapeHtml(p)]>>

RECURSIVE FormatAll(_)
FormatAll(ps) ==
    IF ps = <<>> THEN <<>> ELSE FormatParagraph(Head(ps)) \o FormatAll(Tail(ps))

\* formatAnswer(text): the elements of the returned markup, in order
formatAnswer(text) == IF text = <<>> THEN <<>> ELSE FormatAll(SplitParagraphs(text))

----------------------------------------------------------------------------
(* Backend responses to POST /api/query *)

\* stands for the undefined processing_time of a body without the field
Missing == -1

Answers == {<<"1", ".", "\n", "\n", "<">>}

SourceLists == {<<>>, <<[type |-> "csv", filename |-> <<"<">>]>>}

\* processing_time in milliseconds
ProcessingTimes == {1234}

\* a parsed 2xx body; processing_time is absent from a malformed one
QueryData == [answer : Answers, sources : SourceLists,
              processing_time : ProcessingTimes \cup {Missing}]

QueryStatuses == {"500"}

\* how a POST /api/query settles
QueryOutcomes ==
    [kind : {"ok"}, data : QueryData]
        \cup [kind : {"badjson"}]                   \* 2xx, body is not JSON
        \cup [kind : {"status"}, status : QueryStatuses]  \* non-2xx
        \cup [kind : {"network"}]                   \* fetch rejects

\* Number.prototype.toFixed(2) of a time given in milliseconds, in hundredths
toFixed2(ms) == (ms + 5) \div 10

\* getSourceIcon(type)
getSourceIcon(type) ==
    CASE type = "pdf" -> "icon-pdf"
      [] type = "word" -> "icon-word"
      [] type = "excel" -> "icon-excel"
      [] OTHER -> "icon-word"

RemoveAt(s, i) == SubSeq(s, 1, i - 1) \o SubSeq(s, i + 1, Len(s))

\* mutant of QueryRequest: the body leaves top_k to the backend's default
QueryRequestNoTopK(question) ==
    [method |-> "POST", url |-> "/api/query", contentType |-> "application/json",
     body |-> [question |-> question, top_k |-> Missing]]

\* the body of the POST both query pages send
QueryRequest(question) ==
    [method |-> "POST", url |-> "/api/query", contentType |-> "application/json",
     body |-> [question |-> question, top_k |-> TopK]]

----------------------------------------------------------------------------
(* Single-shot query page: app.js *)

UpperCase(type) ==
    CASE type = "pdf" -> "PDF"
      [] type = "word" -> "WORD"
      [] type = "excel" -> "EXCEL"
      [] type = "csv" -> "CSV"

\* createSourceElement(source, index): the source-item element
createSourceElement(source, index) ==
    [icon |-> getSourceIcon(source.type), typeLabel |-> UpperCase(source.type),
     filename |-> source.filename]

\* data.processing_time.toFixed(2) throws a TypeError on a body without the field
RenderThrows(data) == data.processing_time = Missing

\* displayResults(data), up to the statement that throws, if one does
displayResults(data) ==
    /\ resultsShown' = TRUE
    /\ answerContent' = data.answer
    /\ IF RenderThrows(data)
       THEN UNCHANGED <<processingTime, sourcesContent>>
       ELSE /\ processingTime' = toFixed2(data.processing_time)
            /\ sourcesContent' =
                   IF Len(data.sources) > 0
                   THEN [i \in DOMAIN data.sources |->
                            createSourceElement(data.sources[i], i)]
                   ELSE <<"No sources found">>

\* whether an exception leaves submitQuery after outcome o: fetch, the status check,
\* response.json() and displayResults all run inside the try block, and the catch
\* block calls console.error and alert only
AppEscapes(o) == FALSE

\* mutant of AppResetButton: no finally block, the button stays as the submission left it
AppButtonLeftDisabled == [disabled |-> TRUE, label |-> "btn-loading"]

\* the finally block of submitQuery
AppResetButton == [disabled |-> FALSE, label |-> "btn-text"]

\* submitQuery(), up to its await, with queryInput.value = value
submitQuery(value) ==
    LET question == Trim(value) IN
    IF question = <<>>
    THEN /\ alertMsg' = "Please enter a question"
         /\ UNCHANGED <<submitBtn, emptyStateShown, resultsShown, appReqs>>
    ELSE /\ Len(appReqs) < MaxQueryReqs
         /\ submitBtn' = [disabled |-> TRUE, label |-> "btn-loading"]
         /\ emptyStateShown' = FALSE
         /\ resultsShown' = FALSE
         /\ appReqs' = Append(appReqs, QueryRequest(question))
         /\ UNCHANGED alertMsg

\* the user edits the question
AppType(v) ==
    /\ page = "app"
    /\ v # queryInput
    /\ queryInput' = v
    /\ UNCHANGED <<submitBtn, emptyStateShown, resultsShown, answerContent,
                   processingTime, sourcesContent, alertMsg, appReqs>>
    /\ UNCHANGED <<page, uncaughtError, now, chatVars, adminVars>>

\* click on the submit button; a disabled button dispatches no click
AppClickSubmit ==
    /\ page = "app"
    /\ ~submitBtn.disabled
    /\ submitQuery(queryInput)
    /\ UNCHANGED <<queryInput, answerContent, processingTime, sourcesContent>>
    /\ UNCHANGED <<page, uncaughtError, now, chatVars, adminVars>>

\* Ctrl+Enter in the question field
AppCtrlEnter ==
    /\ page = "app"
    /\ submitQuery(queryInput)
    /\ UNCHANGED <<queryInput, answerContent, processingTime, sourcesContent>>
    /\ UNCHANGED <<page, uncaughtError, now, chatVars, adminVars>>

\* click on an example-question button
AppExampleClick(q) ==
    /\ page = "app"
    /\ queryInput' = q
    /\ submitQuery(q)
    /\ UNCHANGED <<answerContent, processingTime, sourcesContent>>
    /\ UNCHANGED <<page, uncaughtError, now, chatVars, adminVars>>

\* the rest of submitQuery once request i settled with outcome o
AppSettle(i, o) ==
    /\ page = "app"
    /\ i \in DOMAIN appReqs
    /\ appReqs' = RemoveAt(appReqs, i)
    /\ IF o.kind = "ok"
       THEN /\ displayResults(o.data)
            /\ alertMsg' = IF RenderThrows(o.data)
                           THEN "Failed to process query. Please try again."
                           ELSE alertMsg
       ELSE /\ alertMsg' = "Failed to process query. Please try again."
            /\ UNCHANGED <<resultsShown, answerContent, processingTime, sourcesContent>>
    /\ submitBtn' = AppResetButton
    /\ uncaughtError' = (uncaughtError \/ AppEscapes(o))
    /\ UNCHANGED <<queryInput, emptyStateShown>>
    /\ UNCHANGED <<page, now, chatVars, adminVars>>

----------------------------------------------------------------------------
(* Chat query page: part_000 *)

Welcome == [kind |-> "welcome"]

HasWelcome(c) == \E k \in DOMAIN c : c[k].kind = "welcome"

\* welcomeMsg.remove() on the first .welcome-message, when there is one
RemoveWelcome(c) ==
    IF HasWelcome(c)
    THEN RemoveAt(c, CHOOSE k \in DOMAIN c :
                        /\ c[k].kind = "welcome"
                        /\ \A j \in 1..(k - 1) : c[j].kind # "welcome")
    ELSE c

addUserMessage(c, text) == Append(c, [kind |-> "user", html |-> escapeHtml(text)])

addLoadingMessage(c, loadingId) == Append(c, [kind |-> "loading", id |-> loadingId])

IsLoading(b, loadingId) == b.kind = "loading" /\ b.id = loadingId

\* mutant of removeLoadingMessage: the placeholder is looked up under another id
keepLoadingMessage(c, loadingId) == c

\* removeLoadingMessage(loadingId): getElementById finds the first element with the id
removeLoadingMessage(c, loadingId) ==
    IF \E k \in DOMAIN c : IsLoading(c[k], loadingId)
    THEN RemoveAt(c, CHOOSE k \in DOMAIN c :
                        /\ IsLoading(c[k], loadingId)
                        /\ \A j \in 1..(k - 1) : ~IsLoading(c[j], loadingId))
    ELSE c

Min(a, b) == IF a < b THEN a ELSE b

\* createSourcesHTML(sources): the source tags
createSourcesHTML(sources) ==
    [k \in 1..Min(Len(sources), MaxSourceTags) |->
        [icon |-> getSourceIcon(sources[k].type),
         filename |-> escapeHtml(sources[k].filename)]]

addAssistantMessage(c, data) ==
    Append(c, [kind |-> "assistant",
               answer |-> formatAnswer(data.answer),
               sources |-> createSourcesHTML(data.sources),
               meta |-> toFixed2(data.processing_time)])

addErrorMessage(c, text) == Append(c, [kind |-> "error", text |-> text])

\* error.message in the catch block of sendMessage
ErrorMessage(o) ==
    CASE o.kind = "status" -> <<"Query failed: ", o.status>>
      [] o.kind = "network" -> <<"Failed to fetch">>
      [] o.kind = "badjson" -> <<"SyntaxError">>
      [] o.kind = "ok" -> <<"TypeError">>

\* whether an exception leaves sendMessage after outcome o: the try block spans the
\* fetch, response.text(), response.json() and addAssistantMessage, and the catch
\* block calls console.error, removeLoadingMessage and addErrorMessage only
ChatEscapes(o) == FALSE

\* the finally block of sendMessage: the value of sendBtn.disabled and chatInput.disabled
ChatControlsDisabled == FALSE

\* sendMessage(), up to its await
sendMessage ==
    LET question == Trim(chatInput) IN
    IF question = <<>>
    THEN /\ console' = "Empty question, ignoring"
         /\ UNCHANGED <<chatInput, sendBtnDisabled, chatInputDisabled, chatHistory,
                        chatContainer, chatReqs>>
    ELSE LET withUser == addUserMessage(RemoveWelcome(chatContainer), question)
             loadingId == now
         IN /\ Len(withUser) < MaxBubbles
            /\ Len(chatReqs) < MaxQueryReqs
            /\ chatContainer' = addLoadingMessage(withUser, loadingId)
            /\ chatInput' = <<>>
            /\ sendBtnDisabled' = TRUE
            /\ chatInputDisabled' = TRUE
            /\ chatReqs' = Append(chatReqs, [request |-> QueryRequest(question),
                                             question |-> question,
                                             loadingId |-> loadingId])
            /\ console' = "Calling API..."
            /\ UNCHANGED chatHistory

\* the user edits the message; a disabled textarea takes no input
ChatType(v) ==
    /\ page = "chat"
    /\ ~chatInputDisabled
    /\ v # chatInput
    /\ chatInput' = v
    /\ UNCHANGED <<sendBtnDisabled, chatInputDisabled, chatHistory, chatContainer,
                   chatReqs, console>>
    /\ UNCHANGED <<page, uncaughtError, now, queryVars, adminVars>>

\* click on the send button; a disabled button dispatches no click
ChatClickSend ==
    /\ page = "chat"
    /\ ~sendBtnDisabled
    /\ sendMessage
    /\ UNCHANGED <<page, uncaughtError, now, queryVars, adminVars>>

\* Enter without Shift in the textarea; a disabled textarea gets no key events
ChatEnter ==
    /\ page = "chat"
    /\ ~chatInputDisabled
    /\ sendMessage
    /\ UNCHANGED <<page, uncaughtError, now, queryVars, adminVars>>

\* click on an example button of the welcome message: fills the input, sends nothing
ChatExampleClick(q) ==
    /\ page = "chat"
    /\ HasWelcome(chatContainer)
    /\ chatInput' = q
    /\ UNCHANGED <<sendBtnDisabled, chatInputDisabled, chatHistory, chatContainer,
                   chatReqs, console>>
    /\ UNCHANGED <<page, uncaughtError, now, queryVars, adminVars>>

\* mutant of NewChatProceeds: no confirm(), the chat is always cleared
NewChatAlwaysProceeds(confirmed) == TRUE

\* whether startNewChat goes past its first statement, given the answer to confirm()
NewChatProceeds(confirmed) == confirmed

\* startNewChat() with the answer the user gives to confirm()
startNewChat(confirmed) ==
    /\ page = "chat"
    /\ IF NewChatProceeds(confirmed)
       THEN /\ chatHistory' = <<>>
            /\ chatContainer' = <<Welcome>>
            /\ chatInput' = <<>>
       ELSE UNCHANGED <<chatHistory, chatContainer, chatInput>>
    /\ UNCHANGED <<sendBtnDisabled, chatInputDisabled, chatReqs, console>>
    /\ UNCHANGED <<page, uncaughtError, now, queryVars, adminVars>>

\* mutant of HistoryTurn: the question is read from the input again, not from the
\* constant sendMessage captured before it cleared the input
HistoryTurnFromInput(r, data, timestamp) ==
    [question |-> Trim(chatInput), answer |-> data.answer, sources |-> data.sources,
     timestamp |-> timestamp]

\* the object chatHistory.push() gets: r holds the constants of this call of sendMessage
HistoryTurn(r, data, timestamp) ==
    [question |-> r.question, answer |-> data.answer, sources |-> data.sources,
     timestamp |-> timestamp]

\* the rest of sendMessage once request i settled with outcome o
ChatSettle(i, o) ==
    /\ page = "chat"
    /\ i \in DOMAIN chatReqs
    /\ chatReqs' = RemoveAt(chatReqs, i)
    /\ LET r == chatReqs[i]
           cleared == removeLoadingMessage(chatContainer, r.loadingId)
       IN IF o.kind = "ok" /\ ~RenderThrows(o.data)
          THEN /\ chatContainer' = addAssistantMessage(cleared, o.data)
               /\ chatHistory' = Append(chatHistory, HistoryTurn(r, o.data, now))
               /\ console' = "API response data:"
          ELSE /\ chatContainer' =
                      addErrorMessage(cleared,
                                      <<"Failed to process query: ">> \o ErrorMessage(o))
               /\ console' = "Error:"
               /\ UNCHANGED chatHistory
    /\ sendBtnDisabled' = ChatControlsDisabled
    /\ chatInputDisabled' = ChatControlsDisabled
    /\ uncaughtError' = (uncaughtError \/ ChatEscapes(o))
    /\ UNCHANGED chatInput
    /\ UNCHANGED <<page, now, queryVars, adminVars>>

\* time passes
Tick ==
    /\ page = "chat"
    /\ now < MaxClock
    /\ now' = now + 1
    /\ UNCHANGED <<page, uncaughtError, queryVars, chatVars, adminVars>>

----------------------------------------------------------------------------
(* Admin page: admin.js *)

\* localStorage.getItem('token') of a browser that holds no token
NoToken == "null"

Tokens == {"t"}

\* the null of let fileToDelete = null
NoFile == "null"

\* filenames the backend lists
DocNames == {"d1", "d2"}

\* A byte count is written in base 1024, most significant digit first, without
\* leading zeros: 0 is <<>>, 1536 is <<1, 512>>, 1024^4 is <<1, 0, 0, 0, 0>>. (The
\* doubles of the program hold every integer up to 2^53 exactly; the integers of
\* the model checker stop at 2^31 - 1.)
FileSizes ==
    {<<>>, <<1>>, <<1023>>, <<1, 0>>, <<1, 128>>, <<1, 512>>, <<1023, 1023>>,
     <<1, 0, 0>>, <<5, 256, 0>>, <<1, 0, 0, 0>>, <<1, 0, 0, 0, 0>>, <<2, 512, 0, 0, 0>>}

\* doc.type: the extension of the stored file
FileTypes == {".pdf", ".docx", ".doc", ".xlsx", ".xls", ".txt", ".PDF", ""}

\* one entry of the documents array of the listing
Doc(filename, type, size) ==
    [filename |-> filename, type |-> type, size |-> size, indexed |-> TRUE]

\* bodies of a 2xx answer to GET /documents
DocLists == {<<>>, <<Doc("d1", ".pdf", <<1, 512>>), Doc("d2", ".doc", <<>>)>>}

\* mutant of getBadgeClass: only the current Office extensions are known
getBadgeClassNoLegacy(type) ==
    IF type = ".pdf" THEN "badge-pdf"
    ELSE IF type = ".docx" THEN "badge-word"
    ELSE IF type = ".xlsx" THEN "badge-excel"
    ELSE "badge-pdf"

\* getBadgeClass(type)
getBadgeClass(type) ==
    IF type = ".pdf" THEN "badge-pdf"
    ELSE IF type = ".docx" \/ type = ".doc" THEN "badge-word"
    ELSE IF type = ".xlsx" \/ type = ".xls" THEN "badge-excel"
    ELSE "badge-pdf"

\* const sizes
Sizes == <<"Bytes", "KB", "MB", "GB">>

\* sizes[i]: undefined past the end of the array
SizeUnit(i) == IF i + 1 \in DOMAIN Sizes THEN Sizes[i + 1] ELSE "undefined"

\* Math.floor(Math.log(bytes) / Math.log(k)) for bytes > 0: the number of base-1024
\* digits after the first
Exponent(bytes) == Len(bytes) - 1

\* the integer part of 100 * 0.d1 d2 ... (base 1024)
RECURSIVE Scaled(_)
Scaled(digits) ==
    IF digits = <<>> THEN 0 ELSE (Head(digits) * 100 + Scaled(Tail(digits))) \div 1024

\* Math.round(bytes / Math.pow(k, i) * 100) for i = Exponent(bytes): round half up
Hundredths(bytes) ==
    IF Exponent(bytes) = 0 THEN bytes[1] * 100
    ELSE bytes[1] * 100 + (bytes[2] * 100 + 512 + Scaled(Skip(bytes, 2))) \div 1024

\* the decimal text of h / 100: the whole part, and the decimals without trailing zeros
NumberText(h) ==
    [whole |-> h \div 100,
     decimals |-> IF h % 100 = 0 THEN <<>>
                  ELSE IF h % 10 = 0 THEN <<(h % 100) \div 10>>
                  ELSE <<(h % 100) \div 10, h % 10>>]

\* formatFileSize(bytes): the number and the unit of the text
formatFileSize(bytes) ==
    IF bytes = <<>> THEN [number |-> NumberText(0), unit |-> "Bytes"]
    ELSE [number |-> NumberText(Hundredths(bytes)), unit |-> SizeUnit(Exponent(bytes))]

\* doc.type.substring(1).toUpperCase()
FileTypeLabel(type) ==
    CASE type = ".pdf" -> "PDF"
      [] type = ".docx" -> "DOCX"
      [] type = ".doc" -> "DOC"
      [] type = ".xlsx" -> "XLSX"
      [] type = ".xls" -> "XLS"
      [] type = ".txt" -> "TXT"
      [] type = ".PDF" -> "PDF"
      [] type = "" -> ""

\* createDocumentRow(doc): the cells of the row (the date cell is in the locale's format)
createDocumentRow(doc) ==
    [filename |-> doc.filename,
     fileType |-> FileTypeLabel(doc.type),
     badgeClass |-> getBadgeClass(doc.type),
     size |-> formatFileSize(doc.size),
     status |-> IF doc.indexed THEN "Indexed" ELSE "Pending"]

\* the file lists the user picks or drops
FileLists == {<<>>, <<"u1">>, <<"u2", "u1">>}

\* error.message of the SyntaxError response.json() rejects with: its wording is the
\* engine's, and may quote the start of the body
ParseErrorMessages ==
    {"Unexpected end of JSON input",
     "Unexpected token '<', \"<b>401</b>\" is not valid JSON"}

\* how a GET /api/admin/documents settles
ListOutcomes ==
    [kind : {"ok"}, docs : DocLists]
        \cup [kind : {"status"}, status : {"401", "500"}]
        \cup [kind : {"badjson"}, message : ParseErrorMessages]
        \cup [kind : {"network"}]

\* how it settles while files are uploaded: the failures left out show the same
\* error row as the network error
UploadListOutcomes == {o \in ListOutcomes : o.kind \in {"ok", "network"}}

\* how a POST /api/admin/upload settles: 2xx with a JSON body, 2xx with another body,
\* non-2xx with a JSON error body, non-2xx with another body, fetch rejects
UploadOutcomes == {"ok", "okBadBody", "status", "statusBadBody", "network"}

\* how a DELETE /api/admin/documents/<filename> settles
DeleteOutcomes == {"ok", "status", "network"}

\* showStatus(message, type)
showStatus(message, type) ==
    /\ statusMessage' = [text |-> message, type |-> type]
    /\ statusShown' = TRUE

\* loadDocuments(), up to its await
loadDocuments(headers) ==
    /\ Len(listReqs) < MaxListReqs
    /\ documentsTable' = [kind |-> "loading", docs |-> <<>>]
    /\ listReqs' = Append(listReqs, [method |-> "GET", url |-> "/api/admin/documents",
                                     headers |-> headers])
    /\ lastListPending' = TRUE

\* displayDocuments(documents)
displayDocuments(documents) ==
    IF Len(documents) = 0
    THEN [kind |-> "empty", docs |-> <<>>]
    ELSE [kind |-> "table",
          docs |-> [k \in DOMAIN documents |-> createDocumentRow(documents[k])]]

\* error.message in the catch block of loadDocuments
ListErrorMessage(o) ==
    CASE o.kind = "status" -> "Failed to load documents"
      [] o.kind = "network" -> "Failed to fetch"
      [] o.kind = "badjson" -> o.message

\* error.message.includes('401'), over the messages above
Includes401(message) ==
    message = "Unexpected token '<', \"<b>401</b>\" is not valid JSON"

\* admin.js runs: lines 5-33 and 310-311, the listeners are registered in between
PageLoad ==
    /\ page = "admin"
    /\ docState = "loading"
    /\ docState' = "live"
    /\ href' = IF storedToken = NoToken THEN "/login" ELSE href
    /\ authHeaders' = <<"Bearer", storedToken>>
    /\ loadDocuments(authHeaders')
    /\ UNCHANGED <<storedToken, uploadVars, bannerVars, deleteVars>>
    /\ UNCHANGED <<page, uncaughtError, now, queryVars, chatVars, maintVars>>

\* the navigation set off by window.location.href = '/login' commits: the page is gone,
\* and with it every handler and every continuation
Unload ==
    /\ page = "admin"
    /\ docState = "live"
    /\ href = "/login"
    /\ docState' = "gone"
    /\ UNCHANGED <<storedToken, authHeaders, href, listVars, uploadVars, bannerVars,
                   deleteVars>>
    /\ UNCHANGED <<page, uncaughtError, now, queryVars, chatVars, maintVars>>

\* click on logoutBtn
Logout ==
    /\ page = "admin"
    /\ docState = "live"
    /\ storedToken' = NoToken
    /\ href' = "/login"
    /\ UNCHANGED <<docState, authHeaders, listVars, uploadVars, bannerVars, deleteVars>>
    /\ UNCHANGED <<page, uncaughtError, now, queryVars, chatVars, maintVars>>

\* click on refreshBtn
RefreshClick ==
    /\ page = "admin"
    /\ docState = "live"
    /\ loadDocuments(authHeaders)
    /\ UNCHANGED <<sessionVars, uploadVars, bannerVars, deleteVars>>
    /\ UNCHANGED <<page, uncaughtError, now, queryVars, chatVars, maintVars>>

\* the rest of loadDocuments once request i settled with outcome o
ListSettle(i, o) ==
    /\ page = "admin"
    /\ docState = "live"
    /\ i \in DOMAIN listReqs
    /\ listReqs' = RemoveAt(listReqs, i)
    /\ lastListPending' = (lastListPending /\ i # Len(listReqs))
    /\ IF o.kind = "ok"
       THEN /\ documentsTable' = displayDocuments(o.docs)
            /\ UNCHANGED <<storedToken, href>>
       ELSE /\ documentsTable' = [kind |-> "error", docs |-> <<>>]
            /\ IF Includes401(ListErrorMessage(o))
               THEN /\ storedToken' = NoToken
                    /\ href' = "/login"
               ELSE UNCHANGED <<storedToken, href>>
    /\ UNCHANGED <<docState, authHeaders, uploadVars, bannerVars, deleteVars>>
    /\ UNCHANGED <<page, uncaughtError, now, queryVars, chatVars, maintVars>>

\* the setTimeout callback of showStatus
HideStatus ==
    /\ page = "admin"
    /\ docState = "live"
    /\ statusShown
    /\ statusShown' = FALSE
    /\ UNCHANGED <<statusMessage, sessionVars, listVars, uploadVars, deleteVars>>
    /\ UNCHANGED <<page, uncaughtError, now, queryVars, chatVars, maintVars>>

(* Admin page: upload *)

\* mutant of LoopIsOver: the try/catch encloses the loop, a failure ends it
LoopStopsOnFailure(files, i, o) == i = Len(files) \/ o # "ok"

\* mutant of RefreshesListing: the refresh sits at the end of the try block
RefreshesOnSuccess(o) == o = "ok"

\* whether the for loop of uploadFiles is over once file number i settled with
\* outcome o: the try/catch is inside the loop, so the outcome plays no part
LoopIsOver(files, i, o) == i = Len(files)

\* whether uploadFiles refreshes the listing after the loop, given the outcome o of
\* the last upload: line 96 is unconditional
RefreshesListing(o) == TRUE

\* whether `await uploadFile(file)` returns (TRUE) or throws (FALSE)
UploadReturns(o) == o = "ok"

\* lines 73 and 91-96 for an empty list, lines 73-83 up to the first await otherwise
uploadFiles(files) ==
    /\ Len(batches) < MaxBatches
    /\ IF Len(files) = 0
       THEN /\ uploadProgressShown' = FALSE
            /\ progressFill' = <<0, 1>>
            /\ UNCHANGED uploadStatus
            /\ batches' = Append(batches, [files |-> files, i |-> 0, pc |-> "done",
                                           log |-> <<<<"GET">>>>])
            /\ loadDocuments(authHeaders)
       ELSE /\ uploadProgressShown' = TRUE
            /\ progressFill' = <<1, Len(files)>>
            /\ uploadStatus' = [file |-> files[1], index |-> 1, total |-> Len(files)]
            /\ batches' = Append(batches, [files |-> files, i |-> 1, pc |-> "await",
                                           log |-> <<<<"POST", files[1]>>>>])
            /\ UNCHANGED listVars

\* change event of fileInput with the files the user picked
FileInputChange(files) ==
    /\ page = "admin"
    /\ docState = "live"
    /\ Len(files) > 0
    /\ uploadFiles(files)
    /\ UNCHANGED <<sessionVars, bannerVars, deleteVars>>
    /\ UNCHANGED <<page, uncaughtError, now, queryVars, chatVars, maintVars>>

\* drop event of uploadArea with the files the user dropped (none for a dragged text)
Drop(files) ==
    /\ page = "admin"
    /\ docState = "live"
    /\ uploadFiles(files)
    /\ UNCHANGED <<sessionVars, bannerVars, deleteVars>>
    /\ UNCHANGED <<page, uncaughtError, now, queryVars, chatVars, maintVars>>

\* the rest of uploadFiles, call number b, once the upload it awaits settled with
\* outcome o: the banner of this file, then the next iteration up to its await, or
\* the lines after the loop
UploadSettle(b, o) ==
    /\ page = "admin"
    /\ docState = "live"
    /\ b \in DOMAIN batches
    /\ batches[b].pc = "await"
    /\ LET B == batches[b]
           n == Len(B.files)
           f == B.files[B.i]
           type == IF UploadReturns(o) THEN "success" ELSE "error"
           text == IF UploadReturns(o) THEN <<f, " uploaded successfully">>
                                       ELSE <<"Failed to upload ", f>>
           log1 == B.log \o << <<"settled", f>>, <<"banner", f, type>> >>
       IN /\ showStatus(text, type)
          /\ IF ~LoopIsOver(B.files, B.i, o)
             THEN /\ progressFill' = <<B.i + 1, n>>
                  /\ uploadStatus' = [file |-> B.files[B.i + 1], index |-> B.i + 1,
                                      total |-> n]
                  /\ batches' = [batches EXCEPT ![b] =
                        [B EXCEPT !.i = B.i + 1,
                                  !.log = Append(log1, <<"POST", B.files[B.i + 1]>>)]]
                  /\ UNCHANGED <<uploadProgressShown, listVars>>
             ELSE /\ uploadProgressShown' = FALSE
                  /\ progressFill' = <<0, 1>>
                  /\ UNCHANGED uploadStatus
                  /\ IF RefreshesListing(o)
                     THEN /\ loadDocuments(authHeaders)
                          /\ batches' = [batches EXCEPT ![b] =
                                [B EXCEPT !.pc = "done", !.log = Append(log1, <<"GET">>)]]
                     ELSE /\ UNCHANGED listVars
                          /\ batches' = [batches EXCEPT ![b] =
                                [B EXCEPT !.pc = "done", !.log = log1]]
    /\ UNCHANGED <<sessionVars, deleteVars>>
    /\ UNCHANGED <<page, uncaughtError, now, queryVars, chatVars, maintVars>>

(* Admin page: delete *)

\* the filenames of the rows shown, each with its delete button
RowNames(rows) == {rows[k].filename : k \in DOMAIN rows}

\* click on the delete button of the row of filename: showDeleteModal(filename)
ShowDeleteModal(filename) ==
    /\ page = "admin"
    /\ docState = "live"
    /\ documentsTable.kind = "table"
    /\ filename \in RowNames(documentsTable.docs)
    /\ fileToDelete' = filename
    /\ deleteFilename' = filename
    /\ modalShown' = TRUE
    /\ modalTrail' = <<"show", filename>>
    /\ UNCHANGED <<deleteReqs, sessionVars, listVars, uploadVars, bannerVars>>
    /\ UNCHANGED <<page, uncaughtError, now, queryVars, chatVars, maintVars>>

\* mutant of CancelledTarget: cancel hides the modal and keeps the target
KeepsTarget(target) == target

\* fileToDelete after the click handler of cancelDelete
CancelledTarget(target) == NoFile

\* click on cancelDelete
CancelDelete ==
    /\ page = "admin"
    /\ docState = "live"
    /\ modalShown' = FALSE
    /\ fileToDelete' = CancelledTarget(fileToDelete)
    /\ modalTrail' = <<"cancel">>
    /\ UNCHANGED <<deleteFilename, deleteReqs, sessionVars, listVars, uploadVars,
                   bannerVars>>
    /\ UNCHANGED <<page, uncaughtError, now, queryVars, chatVars, maintVars>>

\* click on confirmDelete, up to the await
ConfirmDelete ==
    /\ page = "admin"
    /\ docState = "live"
    /\ IF fileToDelete = NoFile
       THEN UNCHANGED deleteReqs
       ELSE /\ Len(deleteReqs) < MaxDeleteReqs
            /\ deleteReqs' = Append(deleteReqs,
                                    [method |-> "DELETE",
                                     url |-> <<"/api/admin/documents/", fileToDelete>>,
                                     headers |-> authHeaders])
    /\ UNCHANGED <<fileToDelete, deleteFilename, modalShown, modalTrail, sessionVars,
                   listVars, uploadVars, bannerVars>>
    /\ UNCHANGED <<page, uncaughtError, now, queryVars, chatVars, maintVars>>

\* mutant of DeletedTarget: a successful delete hides the modal and keeps the target
DeletedTargetKept(target) == target

\* fileToDelete after a successful delete
DeletedTarget(target) == NoFile

\* mutant of DeleteRefreshes: loadDocuments() sits after the try/catch
DeleteAlwaysRefreshes(o) == TRUE

\* whether the handler of confirmDelete refreshes the listing after outcome o
DeleteRefreshes(o) == o = "ok"

\* the rest of the click handler of confirmDelete once request i settled with outcome o
DeleteSettle(i, o) ==
    /\ page = "admin"
    /\ docState = "live"
    /\ i \in DOMAIN deleteReqs
    /\ deleteReqs' = RemoveAt(deleteReqs, i)
    /\ IF o = "ok"
       THEN /\ showStatus(<<fileToDelete, " deleted successfully">>, "success")
            /\ modalShown' = FALSE
            /\ fileToDelete' = DeletedTarget(fileToDelete)
       ELSE /\ showStatus(<<"Failed to delete document">>, "error")
            /\ UNCHANGED <<modalShown, fileToDelete>>
    /\ IF DeleteRefreshes(o)
       THEN loadDocuments(authHeaders)
       ELSE UNCHANGED listVars
    /\ UNCHANGED <<deleteFilename, modalTrail, sessionVars, uploadVars>>
    /\ UNCHANGED <<page, uncaughtError, now, queryVars, chatVars, maintVars>>

(* Admin page: rebuild index and system status *)

\* how a POST /api/admin/rebuild-index settles: 2xx, non-2xx, fetch rejects
RebuildOutcomes == {"ok", "status", "network"}

\* mutant of RebuildProceeds: the request is sent without asking
RebuildAlwaysProceeds(confirmed) == TRUE

\* whether the handler of rebuildIndexBtn goes past its first statement, given the
\* answer to confirm()
RebuildProceeds(confirmed) == confirmed

\* click on rebuildIndexBtn with the answer the user gives to confirm(), up to the await
RebuildClick(confirmed) ==
    /\ page = "admin"
    /\ docState = "live"
    /\ IF RebuildProceeds(confirmed)
       THEN /\ Len(rebuildReqs) < MaxRebuildReqs
            /\ rebuildReqs' = Append(rebuildReqs,
                                     [method |-> "POST",
                                      url |-> "/api/admin/rebuild-index",
                                      headers |-> authHeaders])
       ELSE UNCHANGED rebuildReqs
    /\ UNCHANGED <<healthReqs, statusDialog>>
    /\ UNCHANGED <<sessionVars, listVars, uploadVars, bannerVars, deleteVars>>
    /\ UNCHANGED <<page, uncaughtError, now, queryVars, chatVars>>

\* the rest of the click handler of rebuildIndexBtn once request i settled with outcome o
RebuildSettle(i, o) ==
    /\ page = "admin"
    /\ docState = "live"
    /\ i \in DOMAIN rebuildReqs
    /\ rebuildReqs' = RemoveAt(rebuildReqs, i)
    /\ IF o = "ok"
       THEN showStatus(<<"Index rebuild initiated">>, "success")
       ELSE showStatus(<<"Failed to rebuild index">>, "error")
    /\ UNCHANGED <<healthReqs, statusDialog>>
    /\ UNCHANGED <<sessionVars, listVars, uploadVars, deleteVars>>
    /\ UNCHANGED <<page, uncaughtError, now, queryVars, chatVars>>

\* how a GET /health settles: a response (2xx or not) whose body is a JSON object
\* with the fields data, a response whose body is not JSON, or fetch rejects
HealthOutcomes ==
    [kind : {"json"}, ok : {TRUE}, data : {[status |-> "healthy", version |-> "1.0.0"]}]
        \cup [kind : {"json"}, ok : {FALSE},
              data : {[status |-> "undefined", version |-> "undefined"]}]
        \cup [kind : {"badjson"}, ok : BOOLEAN]
        \cup [kind : {"network"}]

\* click on systemStatusBtn, up to the first await
SystemStatusClick ==
    /\ page = "admin"
    /\ docState = "live"
    /\ Len(healthReqs) < MaxHealthReqs
    /\ healthReqs' = Append(healthReqs, [method |-> "GET", url |-> "/health"])
    /\ UNCHANGED <<rebuildReqs, statusDialog>>
    /\ UNCHANGED <<sessionVars, listVars, uploadVars, bannerVars, deleteVars>>
    /\ UNCHANGED <<page, uncaughtError, now, queryVars, chatVars>>

\* whether the try block of the handler reaches alert(): response.ok is not looked
\* at, only fetch and response.json() can throw
ReachesAlert(o) == o.kind = "json"

\* the rest of the click handler of systemStatusBtn once request i settled with outcome o
HealthSettle(i, o) ==
    /\ page = "admin"
    /\ docState = "live"
    /\ i \in DOMAIN healthReqs
    /\ healthReqs' = RemoveAt(healthReqs, i)
    /\ IF ReachesAlert(o)
       THEN /\ statusDialog' = <<"System Status: ", o.data.status,
                                 "Version: ", o.data.version>>
            /\ UNCHANGED bannerVars
       ELSE /\ showStatus(<<"Failed to get system status">>, "error")
            /\ UNCHANGED statusDialog
    /\ UNCHANGED rebuildReqs
    /\ UNCHANGED <<sessionVars, listVars, uploadVars, deleteVars>>
    /\ UNCHANGED <<page, uncaughtError, now, queryVars, chatVars>>

----------------------------------------------------------------------------
(* The query pages as a state machine *)

InitQueryVars ==
    /\ queryInput = <<>>
    /\ submitBtn = [disabled |-> FALSE, label |-> "btn-text"]
    /\ emptyStateShown = TRUE
    /\ resultsShown = FALSE
    /\ answerContent = <<>>
    /\ processingTime = Missing
    /\ sourcesContent = <<>>
    /\ alertMsg = "none"
    /\ appReqs = <<>>

InitChatVars ==
    /\ chatInput = <<>>
    /\ sendBtnDisabled = FALSE
    /\ chatInputDisabled = FALSE
    /\ chatHistory = <<>>
    /\ chatContainer = <<Welcome>>
    /\ chatReqs = <<>>
    /\ console = "Chat interface loaded"

InitAdminVars ==
    /\ docState = "loading"
    /\ authHeaders = "unset"
    /\ href = "/admin"
    /\ documentsTable = [kind |-> "blank", docs |-> <<>>]
    /\ listReqs = <<>>
    /\ lastListPending = FALSE
    /\ batches = <<>>
    /\ uploadProgressShown = FALSE
    /\ progressFill = <<0, 1>>
    /\ uploadStatus = [file |-> "none", index |-> 0, total |-> 0]
    /\ statusMessage = [text |-> <<>>, type |-> "info"]
    /\ statusShown = FALSE
    /\ fileToDelete = NoFile
    /\ deleteFilename = NoFile
    /\ modalShown = FALSE
    /\ modalTrail = <<"none">>
    /\ deleteReqs = <<>>
    /\ rebuildReqs = <<>>
    /\ healthReqs = <<>>
    /\ statusDialog = <<>>

InitQuery ==
    /\ page \in {"app", "chat"}
    /\ uncaughtError = FALSE
    /\ now = 0
    /\ InitQueryVars
    /\ InitChatVars
    /\ InitAdminVars
    /\ storedToken = NoToken

NextQuery ==
    \/ \E v \in Inputs : AppType(v)
    \/ AppClickSubmit
    \/ AppCtrlEnter
    \/ \E q \in ExampleQueries : AppExampleClick(q)
    \/ \E i \in 1..MaxQueryReqs, o \in QueryOutcomes : AppSettle(i, o)
    \/ \E v \in Inputs : ChatType(v)
    \/ ChatClickSend
    \/ ChatEnter
    \/ \E q \in ExampleQueries : ChatExampleClick(q)
    \/ \E confirmed \in BOOLEAN : startNewChat(confirmed)
    \/ \E i \in 1..MaxQueryReqs, o \in QueryOutcomes : ChatSettle(i, o)
    \/ Tick

vars == <<page, uncaughtError, now, queryVars, chatVars, adminVars>>

SpecQuery == InitQuery /\ [][NextQuery]_vars

(* The query pages answering one fixed question, for every answer text *)

TextsUpTo(S, n) == UNION {[1..k -> S] : k \in 0..n}

\* answer fields: every text of plain characters, line feeds and markup up to
\* MaxAnswerLen characters, and texts with padding, character references, list
\* numbering and paragraph breaks
RenderAnswers ==
    TextsUpTo({"a", "\n", "<"}, MaxAnswerLen)
        \cup {<<" ", "a">>, <<"a", " ">>, <<"&">>, <<">">>,
              <<"&", "l", "t", ";">>, <<"&", "a", "m", "p", ";">>,
              <<"a", "\n", "\n", "a">>, <<"a", "\n", "\n", "\n", "\n", "a">>,
              <<"1", ".", "\n", "\n", "<">>}

RenderOutcomes ==
    [kind : {"ok"},
     data : [answer : RenderAnswers, sources : {<<>>}, processing_time : ProcessingTimes]]

NextRender ==
    \/ \E v \in {<<"a">>} : AppType(v)
    \/ AppClickSubmit
    \/ \E i \in 1..MaxQueryReqs, o \in RenderOutcomes : AppSettle(i, o)
    \/ \E v \in {<<"a">>} : ChatType(v)
    \/ ChatClickSend
    \/ \E i \in 1..MaxQueryReqs, o \in RenderOutcomes : ChatSettle(i, o)

SpecRender == InitQuery /\ [][NextRender]_vars

----------------------------------------------------------------------------
(* The admin page as a state machine *)

\* listings of one document, of every size and type
Listings == {<<Doc("d1", type, size)>> : type \in FileTypes, size \in FileSizes}

ListingOutcomes == [kind : {"ok"}, docs : Listings]

InitAdmin ==
    /\ page = "admin"
    /\ uncaughtError = FALSE
    /\ now = 0
    /\ InitQueryVars
    /\ InitChatVars
    /\ InitAdminVars
    /\ storedToken \in Tokens \cup {NoToken}

\* session and listing: part of every use of the admin page
NextSession ==
    \/ PageLoad
    \/ Unload
    \/ Logout
    \/ RefreshClick
    \/ \E i \in 1..MaxListReqs, o \in ListOutcomes : ListSettle(i, o)
    \/ HideStatus

\* session and listing while files are uploaded: every list request is answered
\* with a listing, or fails on the network
NextUploadSession ==
    \/ PageLoad
    \/ Unload
    \/ Logout
    \/ RefreshClick
    \/ \E i \in 1..MaxListReqs, o \in UploadListOutcomes : ListSettle(i, o)
    \/ HideStatus

NextUploading ==
    \/ \E files \in FileLists : FileInputChange(files)
    \/ \E files \in FileLists : Drop(files)
    \/ \E b \in 1..MaxBatches, o \in UploadOutcomes : UploadSettle(b, o)

NextDeleting ==
    \/ \E filename \in DocNames : ShowDeleteModal(filename)
    \/ CancelDelete
    \/ ConfirmDelete
    \/ \E i \in 1..MaxDeleteReqs, o \in DeleteOutcomes : DeleteSettle(i, o)

NextMaintaining ==
    \/ \E confirmed \in BOOLEAN : RebuildClick(confirmed)
    \/ \E i \in 1..MaxRebuildReqs, o \in RebuildOutcomes : RebuildSettle(i, o)
    \/ SystemStatusClick
    \/ \E i \in 1..MaxHealthReqs, o \in HealthOutcomes : HealthSettle(i, o)

\* the admin page used to browse listings of every kind of document
NextListing ==
    \/ PageLoad
    \/ RefreshClick
    \/ \E i \in 1..MaxListReqs, o \in ListingOutcomes : ListSettle(i, o)

SpecListing == InitAdmin /\ [][NextListing]_vars

\* the admin page used for uploads
SpecUpload == InitAdmin /\ [][NextUploadSession \/ NextUploading]_vars

\* the admin page used to browse and delete documents
SpecDocs == InitAdmin /\ [][NextSession \/ NextDeleting]_vars

\* the admin page used for index rebuilds and status checks
SpecMaint == InitAdmin /\ [][NextSession \/ NextMaintaining]_vars

\* the admin page, every action
SpecAdmin ==
    InitAdmin /\ [][NextSession \/ NextUploading \/ NextDeleting \/ NextMaintaining]_vars

----------------------------------------------------------------------------
(* Claims about the query pages, checked under SpecQuery *)

AllSpace(s) == \A k \in DOMAIN s : IsSpace(s[k])

\* C1: on either query page, a submission whose question is empty after trimming
\* issues no request and changes neither the submit control, the input's disabled
\* state, the result panel, the transcript nor the chat history.
C1_EmptySubmitStaysIdle ==
    [][/\ ((AppClickSubmit \/ AppCtrlEnter) /\ AllSpace(queryInput))
            => UNCHANGED <<appReqs, submitBtn, emptyStateShown, resultsShown,
                           answerContent, sourcesContent>>
       /\ ((ChatClickSend \/ ChatEnter) /\ AllSpace(chatInput))
            => UNCHANGED <<chatReqs, sendBtnDisabled, chatInputDisabled,
                           chatContainer, chatHistory>>]_vars

\* an idle chat page that has just ignored a whitespace-only message
C1_Witness ==
    /\ page = "chat"
    /\ console = "Empty question, ignoring"
    /\ chatInput = <<" ">>
    /\ chatReqs = <<>>
    /\ ~sendBtnDisabled
    /\ chatContainer = <<Welcome>>

\* the single-shot page after the notice for a whitespace-only question
C1_WitnessApp ==
    /\ page = "app"
    /\ alertMsg = "Please enter a question"
    /\ queryInput = <<" ">>
    /\ appReqs = <<>>
    /\ ~submitBtn.disabled

\* C2: on each query page at most one POST /query request is in flight at any time.
C2_OneQueryInFlight == Len(appReqs) <= 1 /\ Len(chatReqs) <= 1

\* the part of C2 that holds: the chat page never has two requests in flight
C2_ChatOneInFlight == Len(chatReqs) <= 1

\* C8: whenever a query request settles, whatever the outcome, the handler ends with
\* the submit control (and on the chat page the input) enabled, and no exception
\* has left it.
C8_SettleReturnsToIdle ==
    [][/\ Len(appReqs') < Len(appReqs)
            => (~submitBtn'.disabled /\ submitBtn'.label = "btn-text"
                /\ ~uncaughtError')
       /\ Len(chatReqs') < Len(chatReqs)
            => (~sendBtnDisabled' /\ ~chatInputDisabled' /\ ~uncaughtError')]_vars

\* the single-shot page back in Idle after a 2xx response with a malformed body:
\* the panel shows the answer, the failure notice was raised, the button is enabled
C8_Witness ==
    /\ page = "app"
    /\ appReqs = <<>>
    /\ resultsShown
    /\ answerContent # <<>>
    /\ processingTime = Missing
    /\ alertMsg = "Failed to process query. Please try again."
    /\ ~submitBtn.disabled

\* the chat page back in Idle after a failed query
C8_WitnessChat ==
    /\ page = "chat"
    /\ chatReqs = <<>>
    /\ \E k \in DOMAIN chatContainer : chatContainer[k].kind = "error"
    /\ ~sendBtnDisabled
    /\ ~chatInputDisabled

\* a query settled successfully: a 2xx response whose body is a complete Answer
WellFormed(o) == o.kind = "ok" /\ ~RenderThrows(o.data)

\* C11: a query that settles successfully appends exactly one turn to the chat
\* history, holding that query's question and the response's answer and sources; a
\* query that settles with an error leaves the history as it is; and the history
\* never changes otherwise than by such an append, except that a confirmed New Chat
\* empties it.
C11_HistoryAppendOnly ==
    [][/\ \A i \in 1..MaxQueryReqs, o \in QueryOutcomes :
             ChatSettle(i, o) =>
                IF WellFormed(o)
                THEN /\ Len(chatHistory') = Len(chatHistory) + 1
                     /\ SubSeq(chatHistory', 1, Len(chatHistory)) = chatHistory
                     /\ LET turn == chatHistory'[Len(chatHistory')] IN
                        /\ turn.question = chatReqs[i].request.body.question
                        /\ turn.answer = o.data.answer
                        /\ turn.sources = o.data.sources
                ELSE chatHistory' = chatHistory
       /\ (chatHistory' # chatHistory /\ Len(chatHistory') <= Len(chatHistory))
             => (chatHistory' = <<>> /\ startNewChat(TRUE))
       /\ Len(chatHistory') > Len(chatHistory)
             => (Len(chatReqs') < Len(chatReqs)
                 /\ SubSeq(chatHistory', 1, Len(chatHistory)) = chatHistory)]_vars

\* one turn in the history, then a query that failed: the history still holds the turn
C11_Witness ==
    /\ page = "chat"
    /\ chatReqs = <<>>
    /\ Len(chatHistory) = 1
    /\ chatHistory[1].question = <<"a">>
    /\ chatHistory[1].answer \in Answers
    /\ Len(chatContainer) = 4
    /\ chatContainer[2].kind = "assistant"
    /\ chatContainer[4].kind = "error"

\* C12: a declined New Chat prompt leaves the chat history and the transcript as
\* they are; a confirmed one leaves the history empty and the transcript holding
\* the welcome placeholder only.
C12_NewChatNeedsConfirmation ==
    [][/\ startNewChat(FALSE) => UNCHANGED <<chatHistory, chatContainer>>
       /\ startNewChat(TRUE) => (chatHistory' = <<>> /\ chatContainer' = <<Welcome>>)]_vars

\* after a query was answered, a confirmed New Chat: history and transcript are reset
C12_Witness ==
    /\ page = "chat"
    /\ console = "API response data:"
    /\ chatReqs = <<>>
    /\ chatHistory = <<>>
    /\ chatContainer = <<Welcome>>

\* q is v without its leading and trailing white space, and is not empty
IsTrimOf(q, v) ==
    /\ q # <<>>
    /\ ~IsSpace(q[1])
    /\ ~IsSpace(q[Len(q)])
    /\ \E a \in 0..Len(v) : \E b \in a..Len(v) :
          /\ q = SubSeq(v, a + 1, b)
          /\ AllSpace(SubSeq(v, 1, a))
          /\ AllSpace(SubSeq(v, b + 1, Len(v)))

\* req is a JSON POST to the query endpoint asking for the 10 best matches of a
\* question that is value, trimmed
IsQueryPostFor(req, value) ==
    /\ req.method = "POST"
    /\ req.url = "/api/query"
    /\ req.contentType = "application/json"
    /\ DOMAIN req.body = {"question", "top_k"}
    /\ req.body.top_k = 10
    /\ IsTrimOf(req.body.question, value)

\* C14: on both query pages a submission of a question that is not empty after
\* trimming issues exactly one POST to the query endpoint, with a JSON body that
\* carries the trimmed question and top_k = 10; nothing else issues a request.
C14_OnePostPerSubmission ==
    [][/\ ((AppClickSubmit \/ AppCtrlEnter \/ \E q \in ExampleQueries : AppExampleClick(q))
           /\ ~AllSpace(queryInput'))
             => /\ Len(appReqs') = Len(appReqs) + 1
                /\ SubSeq(appReqs', 1, Len(appReqs)) = appReqs
                /\ IsQueryPostFor(appReqs'[Len(appReqs')], queryInput')
       /\ ((ChatClickSend \/ ChatEnter) /\ ~AllSpace(chatInput))
             => /\ Len(chatReqs') = Len(chatReqs) + 1
                /\ SubSeq(chatReqs', 1, Len(chatReqs)) = [k \in DOMAIN chatReqs |-> chatReqs[k]]
                /\ IsQueryPostFor(chatReqs'[Len(chatReqs')].request, chatInput)
       /\ Len(appReqs') > Len(appReqs)
             => (AppClickSubmit \/ AppCtrlEnter \/ \E q \in ExampleQueries : AppExampleClick(q))
       /\ Len(chatReqs') > Len(chatReqs) => (ChatClickSend \/ ChatEnter)]_vars

\* the single-shot page with one request in flight for a padded question
C14_Witness ==
    /\ page = "app"
    /\ queryInput = <<" ", "a", " ">>
    /\ submitBtn.disabled
    /\ Len(appReqs) = 1
    /\ appReqs[1].body = [question |-> <<"a">>, top_k |-> 10]

\* the chat page with one request in flight for a question of two words
C14_WitnessChat ==
    /\ page = "chat"
    /\ Len(chatReqs) = 1
    /\ chatReqs[1].request.body = [question |-> <<"a", " ", "a">>, top_k |-> 10]

LoadingCount(c) == Cardinality({k \in DOMAIN c : c[k].kind = "loading"})

WithoutLoading(c, loadingId) == SelectSeq(c, LAMBDA b : ~IsLoading(b, loadingId))

\* C19: on the chat page, when a query settles the typing placeholder added for it
\* is not in the transcript any more and the transcript has gained exactly one
\* bubble, at its end: an assistant bubble after a success, an error bubble after
\* a failure; and the transcript never holds more than one typing placeholder.
C19_PlaceholderReplacedByOneBubble ==
    [][/\ LoadingCount(chatContainer) <= 1
       /\ LoadingCount(chatContainer') <= 1
       /\ \A i \in 1..MaxQueryReqs, o \in QueryOutcomes :
             ChatSettle(i, o) =>
                LET rest == WithoutLoading(chatContainer, chatReqs[i].loadingId) IN
                /\ WithoutLoading(chatContainer', chatReqs[i].loadingId) = chatContainer'
                /\ Len(chatContainer') = Len(rest) + 1
                /\ SubSeq(chatContainer', 1, Len(rest)) = rest
                /\ chatContainer'[Len(chatContainer')].kind =
                       IF WellFormed(o) THEN "assistant" ELSE "error"]_vars

\* a settled success: the transcript is the question and the assistant's answer
C19_Witness ==
    /\ page = "chat"
    /\ chatReqs = <<>>
    /\ Len(chatContainer) = 2
    /\ chatContainer[1].kind = "user"
    /\ chatContainer[2].kind = "assistant"
    /\ Len(chatHistory) = 1

\* a settled failure: the transcript is the question and the error bubble
C19_WitnessError ==
    /\ page = "chat"
    /\ chatReqs = <<>>
    /\ Len(chatContainer) = 2
    /\ chatContainer[1].kind = "user"
    /\ chatContainer[2].kind = "error"

RECURSIVE Concat(_)
Concat(ss) == IF ss = <<>> THEN <<>> ELSE Head(ss) \o Concat(Tail(ss))

\* the text of each element of the answer of an assistant bubble, as displayed
RenderedParagraphs(bubble) == [k \in DOMAIN bubble.answer |-> Unescape(bubble.answer[k].html)]

\* the text of the answer of an assistant bubble, as displayed
RenderedText(bubble) == Concat(RenderedParagraphs(bubble))

\* the paragraphs of an answer: its parts between blank lines, each without leading
\* and trailing white space, the empty ones left out
Paragraphs(answer) ==
    IF answer = <<>> THEN <<>>
    ELSE LET parts == SplitParagraphs(answer) IN
         SelectSeq([k \in DOMAIN parts |-> Trim(parts[k])], LAMBDA part : part # <<>>)

\* an answer without a blank line and without white space at either end
IsOneParagraph(answer) ==
    /\ answer # <<>>
    /\ ~IsSpace(answer[1])
    /\ ~IsSpace(answer[Len(answer)])
    /\ \A k \in 1..(Len(answer) - 1) : ~(answer[k] = "\n" /\ answer[k + 1] = "\n")

\* a query of the chat page settles successfully in this step: by C11 the history
\* gains the turn with the answer field of the response
ChatAnswered == Len(chatHistory') > Len(chatHistory)

\* C16 as stated: for every successful response, the answer text either page
\* displays, once unescaped, equals the answer field exactly.
C16_RenderedAnswerIsExact ==
    [][/\ \A i \in 1..MaxQueryReqs, o \in RenderOutcomes :
             AppSettle(i, o) => answerContent' = o.data.answer
       /\ ChatAnswered
             => RenderedText(chatContainer'[Len(chatContainer')])
                    = chatHistory'[Len(chatHistory')].answer]_vars

\* C16 as amended: the single-shot page displays the answer field exactly; the
\* chat page displays the paragraphs of the answer (split at blank lines, trimmed,
\* empty ones dropped), each of them, once unescaped, exactly, markup characters
\* included; so an answer of one paragraph is displayed exactly.
C16_RenderedParagraphsAreExact ==
    [][/\ \A i \in 1..MaxQueryReqs, o \in RenderOutcomes :
             AppSettle(i, o) => answerContent' = o.data.answer
       /\ ChatAnswered
             => LET bubble == chatContainer'[Len(chatContainer')]
                    answer == chatHistory'[Len(chatHistory')].answer
                IN /\ bubble.kind = "assistant"
                   /\ RenderedParagraphs(bubble) = Paragraphs(answer)
                   /\ IsOneParagraph(answer) => RenderedText(bubble) = answer]_vars

\* the chat page after an answer made of a markup character and a blank line: the
\* bubble holds one paragraph, the escaped character
C16_Witness ==
    /\ page = "chat"
    /\ Len(chatHistory) = 1
    /\ chatHistory[1].answer = <<"<", "\n", "\n">>
    /\ Len(chatContainer) = 2
    /\ chatContainer[2].kind = "assistant"
    /\ chatContainer[2].answer = <<[tag |-> "p", html |-> <<"&", "l", "t", ";">>]>>

\* C24: on the chat page, whenever the transcript shows the welcome placeholder
\* the chat history is empty and the transcript holds no user, assistant or error
\* bubble.
C24_WelcomeMeansEmptyChat ==
    HasWelcome(chatContainer) =>
        /\ chatHistory = <<>>
        /\ \A k \in DOMAIN chatContainer :
              chatContainer[k].kind \notin {"user", "assistant", "error"}

----------------------------------------------------------------------------
(* Claims about the admin page *)

Awaiting == {b \in DOMAIN batches : batches[b].pc = "await"}

\* the events of one call of uploadFiles(files), file by file, as far as position n:
\* entry 3k-2 is the request for file k, 3k-1 its settling, 3k its banner
IsOrderedLog(files, log) ==
    \A n \in DOMAIN log :
        LET k == (n + 2) \div 3 IN
        /\ k <= Len(files) + 1
        /\ IF k = Len(files) + 1
           THEN n = 3 * Len(files) + 1 /\ log[n] = <<"GET">>
           ELSE CASE n = 3 * k - 2 -> log[n] = <<"POST", files[k]>>
                  [] n = 3 * k - 1 -> log[n] = <<"settled", files[k]>>
                  [] OTHER -> log[n][1] = "banner"

Count(log, kind) == Cardinality({n \in DOMAIN log : log[n][1] = kind})

\* C3: a call of uploadFiles with N files issues exactly N upload requests, one per
\* file in list order, each only after the one before it settled, and one listing
\* refresh, after the last upload settled.
C3_SequentialUploadsThenRefresh ==
    \A b \in DOMAIN batches :
        LET B == batches[b] IN
        /\ IsOrderedLog(B.files, B.log)
        /\ B.pc = "await" => Len(B.log) = 3 * B.i - 2
        /\ B.pc = "done" => /\ Len(B.log) = 3 * Len(B.files) + 1
                            /\ Count(B.log, "POST") = Len(B.files)
                            /\ Count(B.log, "GET") = 1
                            /\ B.log[Len(B.log)] = <<"GET">>

\* a finished call with two files whose last upload failed
C3_Witness ==
    \E b \in DOMAIN batches :
        /\ batches[b].pc = "done"
        /\ Len(batches[b].files) = 2
        /\ batches[b].log[6] = <<"banner", "u1", "error">>

\* C4: at most one upload request is in flight on the admin page at any time.
C4_OneUploadInFlight == Cardinality(Awaiting) <= 1

\* C5: a 401 answer to the document-list request removes the stored token and
\* navigates to /login; any other failing status leaves token and location alone.
C5_Unauthorized ==
    [][\A i \in 1..MaxListReqs :
          /\ ListSettle(i, [kind |-> "status", status |-> "401"])
                => (storedToken' = NoToken /\ href' = "/login")
          /\ ListSettle(i, [kind |-> "status", status |-> "500"])
                => UNCHANGED <<storedToken, href>>]_vars

\* the page was loaded by a browser that held no token
LoadedWithoutToken == docState # "loading" /\ authHeaders = <<"Bearer", NoToken>>

\* C6: a page loaded without a stored token navigates to the login view and has
\* issued no admin request.
C6_NoRequestWithoutToken ==
    LoadedWithoutToken =>
        /\ href = "/login"
        /\ listReqs = <<>>
        /\ deleteReqs = <<>>
        /\ Awaiting = {}

\* C7: whenever a DELETE request is issued, the user's last modal action was a
\* show-modal (not a cancel, and not nothing), and the request names the file that
\* show-modal named.
C7_DeleteNeedsShownModal ==
    [][Len(deleteReqs') > Len(deleteReqs)
          => /\ modalTrail[1] = "show"
             /\ deleteReqs'[Len(deleteReqs')].url =
                    <<"/api/admin/documents/", modalTrail[2]>>]_vars

\* two DELETE requests in flight, the second one issued after the modal was opened
\* again for another file
C7_Witness ==
    /\ Len(deleteReqs) = 2
    /\ deleteReqs[1].url[2] = "d1"
    /\ deleteReqs[2].url[2] = "d2"
    /\ modalTrail = <<"show", "d2">>

\* C9: in every call of uploadFiles each file whose upload settled got exactly one
\* banner, whatever the outcome, and the next file's upload was started: a finished
\* call of N files holds N requests and N banners.
C9_FailureDoesNotStopBatch ==
    \A b \in DOMAIN batches :
        LET B == batches[b]
            settled == IF B.pc = "done" THEN Len(B.files) ELSE B.i - 1
        IN /\ Count(B.log, "banner") = settled
           /\ Count(B.log, "POST") = IF B.pc = "done" THEN settled ELSE settled + 1
           /\ \A k \in 1..settled :
                 /\ B.log[3 * k][2] = B.files[k]
                 /\ B.log[3 * k][3] \in {"success", "error"}
           /\ B.pc = "done" => B.i = Len(B.files)

\* a finished call of two files whose first upload failed and whose second succeeded
C9_Witness ==
    \E b \in DOMAIN batches :
        /\ batches[b].pc = "done"
        /\ batches[b].files = <<"u2", "u1">>
        /\ batches[b].log[3] = <<"banner", "u2", "error">>
        /\ batches[b].log[4] = <<"POST", "u1">>
        /\ batches[b].log[6] = <<"banner", "u1", "success">>

\* C10: when a DELETE settles with success the handler issues one listing request;
\* when it settles with a failure the handler shows an error banner, issues no
\* listing request and leaves the document table as it is.
C10_DeleteOutcome ==
    [][\A i \in 1..MaxDeleteReqs :
          /\ DeleteSettle(i, "ok")
                => /\ Len(listReqs') = Len(listReqs) + 1
                   /\ statusMessage'.type = "success"
          /\ \A o \in {"status", "network"} :
                DeleteSettle(i, o)
                   => /\ listReqs' = listReqs
                      /\ documentsTable' = documentsTable
                      /\ statusMessage' = [text |-> <<"Failed to delete document">>,
                                           type |-> "error"]
                      /\ statusShown']_vars

\* after a failed delete: the error banner is up, the table still lists the
\* documents, no listing request is in flight and the modal still names the file
C10_Witness ==
    /\ statusShown
    /\ statusMessage.text = <<"Failed to delete document">>
    /\ documentsTable.kind = "table"
    /\ listReqs = <<>>
    /\ deleteReqs = <<>>
    /\ modalShown
    /\ fileToDelete = "d1"

\* C20: while the upload progress indicator stays shown, the percentage of the
\* progress bar never decreases.
C20_ProgressNeverDecreases ==
    [][(uploadProgressShown /\ uploadProgressShown')
          => progressFill'[1] * progressFill[2] >= progressFill[1] * progressFill'[2]]_vars

AdminRequests == <<listReqs, deleteReqs, healthReqs, batches>>

\* C13: a declined rebuild prompt issues no request; a rebuild request is issued
\* only by an accepted prompt, one per prompt; and when the request settles the
\* handler issues no request at all, and shows the 'initiated' acknowledgement
\* after a success and an error banner after a failure.
C13_RebuildOnConfirmOnly ==
    [][/\ RebuildClick(FALSE) => UNCHANGED <<rebuildReqs, AdminRequests>>
       /\ Len(rebuildReqs') > Len(rebuildReqs)
             => /\ RebuildClick(TRUE)
                /\ rebuildReqs' = Append(rebuildReqs, rebuildReqs'[Len(rebuildReqs')])
                /\ rebuildReqs'[Len(rebuildReqs')].url = "/api/admin/rebuild-index"
                /\ rebuildReqs'[Len(rebuildReqs')].method = "POST"
       /\ \A i \in 1..MaxRebuildReqs, o \in RebuildOutcomes :
             RebuildSettle(i, o)
                => /\ Len(rebuildReqs') = Len(rebuildReqs) - 1
                   /\ UNCHANGED AdminRequests
                   /\ statusShown'
                   /\ statusMessage' =
                         IF o = "ok"
                         THEN [text |-> <<"Index rebuild initiated">>, type |-> "success"]
                         ELSE [text |-> <<"Failed to rebuild index">>, type |-> "error"]]_vars

\* a rebuild was acknowledged, and the page has no request in flight
C13_Witness ==
    /\ docState = "live"
    /\ statusShown
    /\ statusMessage = [text |-> <<"Index rebuild initiated">>, type |-> "success"]
    /\ rebuildReqs = <<>>
    /\ listReqs = <<>>
    /\ healthReqs = <<>>

\* a failed system-status check: a non-2xx response, whatever its body, or no response
HealthFailures == {o \in HealthOutcomes : o.kind = "network" \/ ~o.ok}

\* C15: when a system-status check fails (non-2xx response or network failure) the
\* handler shows the error banner, shows no status dialog, and leaves the location
\* and the stored token alone.
C15_StatusFailureBannerOnly ==
    [][\A i \in 1..MaxHealthReqs, o \in HealthFailures :
          HealthSettle(i, o)
             => /\ statusDialog' = statusDialog
                /\ statusShown'
                /\ statusMessage' = [text |-> <<"Failed to get system status">>,
                                     type |-> "error"]
                /\ UNCHANGED <<href, storedToken>>]_vars

SizeText(whole, decimals, unit) ==
    [number |-> [whole |-> whole, decimals |-> decimals], unit |-> unit]

\* C17: every row of a listing shows the size with one of the units Bytes, KB, MB
\* and GB, and shows 0 bytes as "0 Bytes", 1024 as "1 KB", 1536 as "1.5 KB" and
\* 1048576 as "1 MB".
C17_FileSizeUnits ==
    [][\A i \in 1..MaxListReqs, o \in ListingOutcomes :
          ListSettle(i, o) =>
             \A k \in DOMAIN o.docs :
                LET shown == documentsTable'.docs[k].size
                    bytes == o.docs[k].size
                IN /\ shown.unit \in {"Bytes", "KB", "MB", "GB"}
                   /\ Len(shown.number.decimals) <= 2
                   /\ bytes = <<>> => shown = SizeText(0, <<>>, "Bytes")
                   /\ bytes = <<1, 0>> => shown = SizeText(1, <<>>, "KB")
                   /\ bytes = <<1, 512>> => shown = SizeText(1, <<5>>, "KB")
                   /\ bytes = <<1, 0, 0>> => shown = SizeText(1, <<>>, "MB")]_vars

\* the part of C17 that holds: the sizes below 1024^4 bytes
C17_FileSizeUnitsBelowTB ==
    [][\A i \in 1..MaxListReqs, o \in ListingOutcomes :
          ListSettle(i, o) =>
             \A k \in DOMAIN o.docs :
                LET shown == documentsTable'.docs[k].size
                    bytes == o.docs[k].size
                IN /\ Len(bytes) <= 4 => shown.unit \in {"Bytes", "KB", "MB", "GB"}
                   /\ Len(shown.number.decimals) <= 2
                   /\ bytes = <<>> => shown = SizeText(0, <<>>, "Bytes")
                   /\ bytes = <<1, 0>> => shown = SizeText(1, <<>>, "KB")
                   /\ bytes = <<1, 512>> => shown = SizeText(1, <<5>>, "KB")
                   /\ bytes = <<1, 0, 0>> => shown = SizeText(1, <<>>, "MB")]_vars

\* C18: every row of a listing carries a badge: the pdf badge for .pdf, the word
\* badge for .docx and .doc, the excel badge for .xlsx and .xls, and the pdf badge
\* for every other extension.
C18_BadgeForEveryType ==
    [][\A i \in 1..MaxListReqs, o \in ListingOutcomes :
          ListSettle(i, o) =>
             \A k \in DOMAIN o.docs :
                LET badge == documentsTable'.docs[k].badgeClass
                    type == o.docs[k].type
                IN /\ badge \in {"badge-pdf", "badge-word", "badge-excel"}
                   /\ type = ".pdf" => badge = "badge-pdf"
                   /\ type \in {".docx", ".doc"} => badge = "badge-word"
                   /\ type \in {".xlsx", ".xls"} => badge = "badge-excel"
                   /\ type \notin {".pdf", ".docx", ".doc", ".xlsx", ".xls"}
                         => badge = "badge-pdf"]_vars

\* the listing shows a .doc file with the word badge
C18_Witness ==
    /\ documentsTable.kind = "table"
    /\ documentsTable.docs[1].fileType = "DOC"
    /\ documentsTable.docs[1].badgeClass = "badge-word"
    /\ listReqs = <<>>

\* the listing shows a .txt file with the pdf badge
C18_WitnessFallback ==
    /\ documentsTable.kind = "table"
    /\ documentsTable.docs[1].fileType = "TXT"
    /\ documentsTable.docs[1].badgeClass = "badge-pdf"

\* C22: no two DELETE requests for the same file are in flight at the same time.
C22_OneDeletePerFile ==
    \A i, j \in DOMAIN deleteReqs : i # j => deleteReqs[i].url # deleteReqs[j].url

\* C25: the delete modal is shown exactly when a delete target is set.
C25_ModalShownIffTarget == modalShown <=> fileToDelete # NoFile

\* after a successful delete of d1 while another DELETE is still in flight: the
\* modal is hidden and the target is reset
C25_Witness ==
    /\ ~modalShown
    /\ fileToDelete = NoFile
    /\ deleteFilename = "d1"
    /\ statusMessage = [text |-> <<"d1", " deleted successfully">>, type |-> "success"]
    /\ Len(deleteReqs) = 1

\* the modal is open on d2 after it was cancelled for d1
C25_WitnessShown ==
    /\ modalShown
    /\ fileToDelete = "d2"
    /\ deleteFilename = "d2"
    /\ deleteReqs = <<>>
    /\ statusMessage.text = <<"Failed to delete document">>

\* a step of an upload, delete, rebuild-index or system-status action, settles included
OtherAdminAction ==
    \/ \E files \in FileLists : FileInputChange(files) \/ Drop(files)
    \/ \E b \in 1..MaxBatches, o \in UploadOutcomes : UploadSettle(b, o)
    \/ \E filename \in DocNames : ShowDeleteModal(filename)
    \/ CancelDelete
    \/ ConfirmDelete
    \/ \E i \in 1..MaxDeleteReqs, o \in DeleteOutcomes : DeleteSettle(i, o)
    \/ \E confirmed \in BOOLEAN : RebuildClick(confirmed)
    \/ \E i \in 1..MaxRebuildReqs, o \in RebuildOutcomes : RebuildSettle(i, o)
    \/ SystemStatusClick
    \/ \E i \in 1..MaxHealthReqs, o \in HealthOutcomes : HealthSettle(i, o)

\* C21: the stored token changes only in a logout or when a document-list request
\* settles with status 401; upload, delete, rebuild-index and system-status
\* actions, failed or not, leave the token and the location alone.
C21_TokenRemovedOnlyByLogoutOr401 ==
    [][/\ storedToken' # storedToken
             => \/ Logout
                \/ \E i \in 1..MaxListReqs :
                      ListSettle(i, [kind |-> "status", status |-> "401"])
       /\ OtherAdminAction => UNCHANGED <<storedToken, href>>]_vars

\* the part of C21 that holds: upload, delete, rebuild-index and system-status
\* actions, failed or not, leave the token and the location alone
C21_OtherActionsKeepSession ==
    [][OtherAdminAction => UNCHANGED <<storedToken, href>>]_vars

\* C23: when no list request is in flight the table shows the response to the
\* list request issued last, and the response to an earlier request never replaces
\* the rendering of the response to a later one: a list response is rendered only
\* while the request issued last is in flight, and the response that leaves no
\* request in flight is the response to that request.
C23_TableShowsLatestList ==
    [][Len(listReqs') < Len(listReqs)
          => /\ listReqs' = <<>> => lastListPending /\ ~lastListPending'
             /\ lastListPending]_vars

====
